---------------------------- MODULE Spec2Model ----------------------------
(***************************************************************************)
(* A model of src/structures/APIMessage.js (discord.js): the normalisation *)
(* of the arguments of send into an options object (transformOptions,      *)
(* create, partitionMessageAdditions), the content formatter (makeContent),*)
(* the payload resolver (resolveData) and the file resolver (resolveFiles, *)
(* resolveFile).                                                           *)
(*                                                                         *)
(* JavaScript values are records tagged by t.  A plain object is a         *)
(* function from its own keys to values, so that the presence of a key is  *)
(* part of the value.  A string is a sequence of tokens; a token stands    *)
(* for a fixed piece of text (TokLen gives its length in characters).      *)
(***************************************************************************)
EXTENDS Integers, Sequences, FiniteSets, TLC

VARIABLES
  args,       \* the arguments of APIMessage.create: content, options, extra
  target,     \* this.target
  options,    \* this.options
  pc,         \* the position of the caller
  again,      \* transformOptions applied to its own result
  data,       \* what resolveData returned (or threw)
  made,       \* what makeContent returned (or threw)
  firstMade,  \* what the first makeContent call returned
  firstData,  \* what the first resolveData call returned
  calls,      \* number of makeContent / resolveData calls made
  items,      \* the argument of partitionMessageAdditions
  parts,      \* what partitionMessageAdditions returned
  fileLikes,  \* resolveFiles: the discovered file references
  task,       \* resolveFiles: the state of each resolveFile promise
  completed,  \* resolveFiles: the indices of the tasks in completion order
  joined      \* resolveFiles: the promise returned by Promise.all

vars == <<args, target, options, pc, again, data, made, firstMade, firstData,
          calls, items, parts, fileLikes, task, completed, joined>>

---------------------------------------------------------------------------
(* Bounds of the model *)

MaxAdditions == 3
MaxItems == 5
MaxNonceLen == 3
MaxContentLen == 2
MaxCalls == 2
MaxRefs == 3
MaxEmbeds == 2

---------------------------------------------------------------------------
(* JavaScript values *)

Undef == [t |-> "undefined"]
Null == [t |-> "null"]
None == [t |-> "none"]
Bool(b) == [t |-> "boolean", b |-> b]
Num(n) == [t |-> "number", n |-> n]
Str(s) == [t |-> "string", s |-> s]
Arr(xs) == [t |-> "array", items |-> xs]
Obj(o) == [t |-> "object", o |-> o]
Throw(e) == [t |-> "throw", error |-> e]
MessageEmbed(i, fs) == [t |-> "MessageEmbed", id |-> i, files |-> fs]
Buffer(i) == [t |-> "Buffer", id |-> i]
MessageAttachment(i) ==
  [t |-> "MessageAttachment", id |-> i, attachment |-> Buffer(i),
   name |-> Str(<<"a.png">>)]

EmptyObj == <<>>
EmptyStr == Str(<<>>)

\* options.key; undefined when the object has no such key
Get(o, k) == IF k \in DOMAIN o THEN o[k] ELSE Undef

\* Object.assign(a, b): the keys of b win
Assign(a, b) == b @@ a

\* !v
Falsy(v) ==
  \/ v.t \in {"undefined", "null"}
  \/ v = EmptyStr
  \/ v = Bool(FALSE)
  \/ v = Num(0)

\* typeof v === 'object'
TypeofObject(v) ==
  v.t \in {"null", "object", "array", "MessageEmbed", "MessageAttachment"}

SeqsUpTo(S, n) == UNION {[1..k -> S] : k \in 0..n}

---------------------------------------------------------------------------
(* partitionMessageAdditions *)

\* a faulty loop: each item is put before the ones found so far
RECURSIVE PartitionLoopReversed(_, _, _)
PartitionLoopReversed(xs, i, acc) ==
  IF i > Len(xs) THEN acc
  ELSE IF xs[i].t = "MessageEmbed"
       THEN PartitionLoopReversed(xs, i + 1, <<<<xs[i]>> \o acc[1], acc[2]>>)
       ELSE IF xs[i].t = "MessageAttachment"
            THEN PartitionLoopReversed(xs, i + 1, <<acc[1], <<xs[i]>> \o acc[2]>>)
            ELSE PartitionLoopReversed(xs, i + 1, acc)

\* the loop of partitionMessageAdditions from item i on; acc is <<embeds, files>>
RECURSIVE PartitionLoop(_, _, _)
PartitionLoop(xs, i, acc) ==
  IF i > Len(xs) THEN acc
  ELSE IF xs[i].t = "MessageEmbed"
       THEN PartitionLoop(xs, i + 1, <<Append(acc[1], xs[i]), acc[2]>>)
       ELSE IF xs[i].t = "MessageAttachment"
            THEN PartitionLoop(xs, i + 1, <<acc[1], Append(acc[2], xs[i])>>)
            ELSE PartitionLoop(xs, i + 1, acc)

\* partitionMessageAdditions with the faulty loop
partitionMessageAdditionsReversed(xs) == PartitionLoopReversed(xs, 1, <<<<>>, <<>>>>)

partitionMessageAdditions(xs) == PartitionLoop(xs, 1, <<<<>>, <<>>>>)

\* embeds[0]
First(xs) == IF Len(xs) > 0 THEN xs[1] ELSE Undef

---------------------------------------------------------------------------
(* transformOptions and create *)

\* a faulty literal: both fields are set, whatever the target
WrapEmbedBoth(content, embed, isWebhook) ==
  [content |-> content, embed |-> embed, embeds |-> Arr(<<embed>>)]

\* the object literal built around a single MessageEmbed (line 240)
WrapEmbed(content, embed, isWebhook) ==
  IF isWebhook THEN [content |-> content, embeds |-> Arr(<<embed>>)]
  ELSE [content |-> content, embed |-> embed]

\* the object literal built when options is an array (line 249)
WrapOptionsArray(content, embeds, files, isWebhook) ==
  IF isWebhook
  THEN [content |-> content, embeds |-> Arr(embeds), files |-> Arr(files)]
  ELSE [content |-> content, embed |-> First(embeds), files |-> Arr(files)]

\* the object literal built when content is an array (line 253)
WrapContentArray(embeds, files, isWebhook) ==
  IF isWebhook
  THEN [embeds |-> Arr(embeds), files |-> Arr(files)]
  ELSE [embed |-> First(embeds), files |-> Arr(files)]

\* a faulty test: the array is wrapped even when nothing was found in it
PartitionFoundAlways(embeds, files) == TRUE

\* embeds.length || files.length (line 252)
PartitionFound(embeds, files) == Len(embeds) # 0 \/ Len(files) # 0

transformOptions(content, opts, extra, isWebhook) ==
  LET shift == Falsy(opts) /\ TypeofObject(content) /\ content.t # "array"
      opts1 == IF shift THEN content ELSE opts
      content1 == IF shift THEN EmptyStr ELSE content
      opts2 == IF Falsy(opts1) THEN Obj(EmptyObj) ELSE opts1
  IN  IF opts2.t = "MessageEmbed"
      THEN Assign(WrapEmbed(content1, opts2, isWebhook), extra)
      ELSE IF opts2.t = "MessageAttachment"
      THEN Assign([content |-> content1, files |-> Arr(<<opts2>>)], extra)
      ELSE IF opts2.t = "array"
      THEN LET p == partitionMessageAdditions(opts2.items)
           IN  Assign(WrapOptionsArray(content1, p[1], p[2], isWebhook), extra)
      ELSE LET p == IF content1.t = "array"
                    THEN partitionMessageAdditions(content1.items)
                    ELSE <<<<>>, <<>>>>
           IN  IF content1.t = "array" /\ PartitionFound(p[1], p[2])
               THEN Assign(WrapContentArray(p[1], p[2], isWebhook), extra)
               ELSE Assign(Assign([content |-> content1], opts2.o), extra)

\* target instanceof Webhook || target instanceof WebhookClient
isWebhook(tgt) == tgt.kind = "Webhook"

\* target instanceof User || target instanceof GuildMember
isUser(tgt) == tgt.kind = "User"

\* the options of the APIMessage that create returns
create(tgt, content, opts, extra) ==
  transformOptions(content, opts, extra, isWebhook(tgt))

---------------------------------------------------------------------------
(* Strings: sequences of tokens *)

\* the length in characters of the text a token stands for
TokLen(tok) ==
  CASE tok = "everyone" -> 8
    [] tok = "here" -> 4
    [] tok = "FENCE" -> 3            \* ```
    [] tok = "ESCFENCE" -> 4         \* a fence escaped by a zero-width space
    [] tok = "<@" -> 2
    [] tok = ">, " -> 3
    [] tok = "42" -> 2
    [] tok = "js" -> 2
    [] tok = "[object Object]" -> 15
    [] OTHER -> 1                    \* a, @, !, NL, ZWSP, p, q, digits, ...

RECURSIVE StrLen(_)
StrLen(s) == IF s = <<>> THEN 0 ELSE TokLen(Head(s)) + StrLen(Tail(s))

\* v || '' for a string-valued property
OrEmpty(v) == IF Falsy(v) THEN <<>> ELSE v.s

\* String(x) of one member of an array being joined
MemberString(x) ==
  IF x.t = "string" THEN x.s
  ELSE IF x.t \in {"undefined", "null"} THEN <<>>
  ELSE <<"[object Object]">>

RECURSIVE Join(_, _)
Join(xs, sep) ==
  IF xs = <<>> THEN <<>>
  ELSE IF Len(xs) = 1 THEN MemberString(xs[1])
  ELSE MemberString(xs[1]) \o sep \o Join(Tail(xs), sep)

\* Util.resolveString: a string as it is, an array joined by newlines,
\* anything else by String()
resolveString(v) ==
  IF v.t = "string" THEN v.s
  ELSE IF v.t = "array" THEN Join(v.items, <<"NL">>)
  ELSE <<"[object Object]">>

\* Util.escapeMarkdown(text, true): only the code block fences are escaped
RECURSIVE escapeMarkdown(_)
escapeMarkdown(s) ==
  IF s = <<>> THEN <<>>
  ELSE (IF Head(s) = "FENCE" THEN <<"ESCFENCE">> ELSE <<Head(s)>>)
       \o escapeMarkdown(Tail(s))

\* content.replace(/@(everyone|here)/g, '@\u200b$1'); ZWSP is \u200b
RECURSIVE replaceEveryone(_)
replaceEveryone(s) ==
  IF Len(s) < 2 THEN s
  ELSE IF Head(s) = "@" /\ s[2] \in {"everyone", "here"}
       THEN <<"@", "ZWSP", s[2]>> \o replaceEveryone(Tail(Tail(s)))
       ELSE <<Head(s)>> \o replaceEveryone(Tail(s))

\* text.split(char): the pieces between the occurrences of the token ch
RECURSIVE SplitOn(_, _, _)
SplitOn(s, ch, cur) ==
  IF s = <<>> THEN <<cur>>
  ELSE IF Head(s) = ch THEN <<cur>> \o SplitOn(Tail(s), ch, <<>>)
       ELSE SplitOn(Tail(s), ch, Append(cur, Head(s)))

DefaultMaxLength == 2000

\* the loop of Util.splitMessage over the pieces
RECURSIVE SplitLoop(_, _, _, _, _, _, _)
SplitLoop(pieces, i, messages, maxLength, ch, prepend, append) ==
  IF i > Len(pieces) THEN messages
  ELSE LET n == Len(messages)
           over == StrLen(messages[n]) + StrLen(pieces[i]) + 1 > maxLength
           ms == IF over
                 THEN Append([messages EXCEPT ![n] = @ \o append], prepend)
                 ELSE messages
           k == Len(ms)
           sep == IF StrLen(ms[k]) > 0 /\ ms[k] # prepend THEN <<ch>> ELSE <<>>
       IN  SplitLoop(pieces, i + 1, [ms EXCEPT ![k] = @ \o sep \o pieces[i]],
                     maxLength, ch, prepend, append)

\* the members of xs that are not the empty string, as an array of strings
RECURSIVE NonEmptyStrings(_)
NonEmptyStrings(xs) ==
  IF xs = <<>> THEN <<>>
  ELSE (IF Head(xs) = <<>> THEN <<>> ELSE <<Str(Head(xs))>>)
       \o NonEmptyStrings(Tail(xs))

\* Util.splitMessage(text, { maxLength, char, prepend, append })
splitMessage(text, so) ==
  LET maxLength == IF Get(so, "maxLength").t = "number"
                   THEN Get(so, "maxLength").n ELSE DefaultMaxLength
      ch == IF Get(so, "char").t = "string" THEN Get(so, "char").s[1] ELSE "NL"
      prepend == IF Get(so, "prepend").t = "string" THEN Get(so, "prepend").s ELSE <<>>
      append == IF Get(so, "append").t = "string" THEN Get(so, "append").s ELSE <<>>
      pieces == SplitOn(text, ch, <<>>)
  IN  IF StrLen(text) <= maxLength THEN Arr(<<Str(text)>>)
      ELSE IF Len(pieces) = 1 THEN Throw("SPLIT_MAX_LEN")
      ELSE Arr(NonEmptyStrings(
             SplitLoop(pieces, 1, <<<<>>>>, maxLength, ch, prepend, append)))

---------------------------------------------------------------------------
(* makeContent *)

\* typeof this.options.split !== 'undefined' && this.options.split !== false
isSplit(o) == Get(o, "split").t # "undefined" /\ Get(o, "split") # Bool(FALSE)

\* typeof this.options.code !== 'undefined' && this.options.code !== false
isCode(o) == Get(o, "code").t # "undefined" /\ Get(o, "code") # Bool(FALSE)

\* a faulty makeContent: splitOptions is this.options.split itself
SplitOptionsAliased == FALSE

\* whether splitOptions is an object of its own, Object.assign({}, split),
\* and not this.options.split itself
SplitOptionsIsCopy == TRUE

\* the properties that Object.assign({}, this.options.split) copies
SplitOptionsStart(o) ==
  IF Get(o, "split").t = "object" THEN Get(o, "split").o ELSE EmptyObj

\* this.target.client.users.resolveID(reply)
resolveID(reply) == reply.id

\* the mention of the user replied to, '' when there is none
mentionPart(tgt, o) ==
  LET reply == Get(o, "reply")
  IN  IF ~Falsy(reply) /\ ~isUser(tgt) /\ tgt.type # "dm"
      THEN <<"<@">>
           \o (IF reply.t = "GuildMember" /\ ~Falsy(reply.nickname)
               THEN <<"!">> ELSE <<>>)
           \o <<resolveID(reply)>> \o <<">, ">>
      ELSE <<>>

\* a faulty test: the body of the if runs for an empty content too
ContentGuardAlways(content, mention) == TRUE

\* if (content || mentionPart)
ContentGuard(content, mention) == content # <<>> \/ mention # <<>>

\* one call of makeContent: what it returns (ret) and the splitOptions
\* object as the call leaves it (so)
makeContentRun(tgt, o) ==
  LET raw == Get(o, "content")
      c0 == resolveString(IF raw.t \in {"undefined", "null"} THEN EmptyStr ELSE raw)
      m == mentionPart(tgt, o)
      so0 == SplitOptionsStart(o)
      so1 == IF m # <<>> /\ isSplit(o)
             THEN Assign(so0, [prepend |-> Str(m \o OrEmpty(Get(so0, "prepend")))])
             ELSE so0
      code == Get(o, "code")
      codeName == IF code.t = "string" THEN code.s ELSE <<>>
      c1 == IF isCode(o)
            THEN m \o <<"FENCE">> \o codeName \o <<"NL">> \o escapeMarkdown(c0)
                 \o <<"NL", "FENCE">>
            ELSE IF m # <<>> THEN m \o c0 ELSE c0
      so2 == IF isCode(o) /\ isSplit(o)
             THEN Assign(so1,
                    [prepend |-> Str(OrEmpty(Get(so1, "prepend"))
                                     \o <<"FENCE">> \o codeName \o <<"NL">>),
                     append |-> Str(<<"NL", "FENCE">> \o OrEmpty(Get(so1, "append")))])
             ELSE so1
      de == IF Get(o, "disableEveryone").t = "undefined"
            THEN Bool(tgt.disableEveryone)
            ELSE Get(o, "disableEveryone")
      c2 == IF ~Falsy(de) THEN replaceEveryone(c1) ELSE c1
  IN  IF ContentGuard(c0, m)
      THEN [ret |-> IF isSplit(o) THEN splitMessage(c2, so2) ELSE Str(c2), so |-> so2]
      ELSE [ret |-> Str(c0), so |-> so1]

makeContent(tgt, o) == makeContentRun(tgt, o).ret

\* this.options after a call of makeContent: the writes to splitOptions land
\* in this.options.split only if splitOptions is that very object
optionsAfterMakeContent(tgt, o) ==
  IF isSplit(o) /\ Get(o, "split").t = "object" /\ ~SplitOptionsIsCopy
  THEN [o EXCEPT !["split"] = Obj(makeContentRun(tgt, o).so)]
  ELSE o

---------------------------------------------------------------------------
(* resolveData *)

Digits == {"0", "1", "2", "3", "4", "5", "6", "7", "8", "9"}

DigitVal(c) ==
  CASE c = "0" -> 0 [] c = "1" -> 1 [] c = "2" -> 2 [] c = "3" -> 3
    [] c = "4" -> 4 [] c = "5" -> 5 [] c = "6" -> 6 [] c = "7" -> 7
    [] c = "8" -> 8 [] c = "9" -> 9

RECURSIVE SkipSpaces(_)
SkipSpaces(s) ==
  IF s # <<>> /\ Head(s) = " " THEN SkipSpaces(Tail(s)) ELSE s

\* the value of the longest prefix of digits of s, continuing from acc
RECURSIVE DigitPrefix(_, _)
DigitPrefix(s, acc) ==
  IF s # <<>> /\ Head(s) \in Digits
  THEN DigitPrefix(Tail(s), 10 * acc + DigitVal(Head(s)))
  ELSE acc

\* parseInt of a string given by its characters (no radix prefix): an
\* optional sign and the longest prefix of digits; NaN when there is none
ParseIntString(chars) ==
  LET s1 == SkipSpaces(chars)
      neg == s1 # <<>> /\ Head(s1) = "-"
      s2 == IF s1 # <<>> /\ Head(s1) \in {"-", "+"} THEN Tail(s1) ELSE s1
  IN  IF s2 = <<>> \/ Head(s2) \notin Digits THEN [nan |-> TRUE, n |-> 0]
      ELSE [nan |-> FALSE,
            n |-> IF neg THEN 0 - DigitPrefix(s2, 0) ELSE DigitPrefix(s2, 0)]

\* parseInt(v)
parseInt(v) ==
  IF v.t = "string" THEN ParseIntString(v.s)
  ELSE IF v.t = "number" THEN [nan |-> FALSE, n |-> v.n]
  ELSE [nan |-> TRUE, n |-> 0]

\* the nonce of the payload (lines 104-108)
resolveNonce(o) ==
  IF Get(o, "nonce").t # "undefined"
  THEN LET r == parseInt(Get(o, "nonce"))
       IN  IF r.nan \/ r.n < 0 THEN Throw("MESSAGE_NONCE_TYPE") ELSE Num(r.n)
  ELSE Undef

\* new MessageEmbed(e)._apiTransform(): the wire shape of an embed, which
\* does not carry the embed's files
apiTransform(e) == [t |-> "APIEmbed", id |-> e.id]

\* a faulty resolveData: a webhook gets the first embed only
dataEmbedLikesFirstOnly(tgt, o) ==
  IF isWebhook(tgt)
  THEN IF ~Falsy(Get(o, "embeds")) /\ Get(o, "embeds").items # <<>>
       THEN <<Get(o, "embeds").items[1]>> ELSE <<>>
  ELSE IF ~Falsy(Get(o, "embed")) THEN <<Get(o, "embed")>> ELSE <<>>

\* the embeds the payload is built from (lines 110-117)
dataEmbedLikes(tgt, o) ==
  IF isWebhook(tgt)
  THEN IF ~Falsy(Get(o, "embeds")) THEN Get(o, "embeds").items ELSE <<>>
  ELSE IF ~Falsy(Get(o, "embed")) THEN <<Get(o, "embed")>> ELSE <<>>

\* v || w
OrElse(v, w) == IF Falsy(v) THEN w ELSE v

resolveData(tgt, o) ==
  LET content == makeContent(tgt, o)
      nonce == resolveNonce(o)
      likes == dataEmbedLikes(tgt, o)
      embeds == [i \in 1..Len(likes) |-> apiTransform(likes[i])]
  IN  IF content.t = "throw" THEN content
      ELSE IF nonce.t = "throw" THEN nonce
      ELSE [t |-> "payload",
            content |-> content,
            tts |-> Bool(~Falsy(Get(o, "tts"))),
            nonce |-> nonce,
            embed |-> IF Get(o, "embed") = Null THEN Null ELSE First(embeds),
            embeds |-> Arr(embeds),
            username |-> IF isWebhook(tgt)
                         THEN OrElse(Get(o, "username"), tgt.name) ELSE Undef,
            avatar_url |-> IF isWebhook(tgt) /\ ~Falsy(Get(o, "avatarURL"))
                           THEN Get(o, "avatarURL") ELSE Undef]

---------------------------------------------------------------------------
(* resolveFiles and resolveFile *)

\* the embeds whose files are sent (lines 143-150)
fileEmbedLikes(tgt, o) ==
  IF isWebhook(tgt)
  THEN IF ~Falsy(Get(o, "embeds")) THEN Get(o, "embeds").items ELSE <<>>
  ELSE IF ~Falsy(Get(o, "embed")) THEN <<Get(o, "embed")>> ELSE <<>>

\* the files of the embeds from the i-th on (lines 156-160)
RECURSIVE EmbedFiles(_, _)
EmbedFiles(likes, i) ==
  IF i > Len(likes) THEN <<>>
  ELSE (IF ~Falsy(likes[i].files) THEN likes[i].files.items ELSE <<>>)
       \o EmbedFiles(likes, i + 1)

\* fileLikes (lines 152-160)
discoverFiles(tgt, o) ==
  (IF ~Falsy(Get(o, "files")) THEN Get(o, "files").items ELSE <<>>)
  \o EmbedFiles(fileEmbedLikes(tgt, o), 1)

\* Util.basename: what follows the last separator of the path
RECURSIVE basename(_)
basename(path) ==
  IF \E i \in 1..Len(path) : path[i] = "/"
  THEN basename(Tail(path))
  ELSE path

\* findName (lines 174-184)
findName(thing) ==
  IF thing.t = "string" THEN Str(basename(thing.s))
  ELSE IF thing.t = "Stream" /\ ~Falsy(thing.path) THEN Str(basename(thing.path.s))
  ELSE Str(<<"file.jpg">>)

\* typeof fileLike === 'string' || fileLike instanceof Buffer ||
\* typeof fileLike.pipe === 'function'
ownAttachment(fileLike) == fileLike.t \in {"string", "Buffer", "Stream"}

\* resolveFile up to its await: the attachment and the name (lines 186-195)
fileAttachment(fileLike) ==
  IF ownAttachment(fileLike) THEN fileLike
  ELSE IF fileLike.t = "object" THEN Get(fileLike.o, "attachment")
  ELSE fileLike.attachment

fileName(fileLike) ==
  IF ownAttachment(fileLike) THEN findName(fileLike)
  ELSE LET name == IF fileLike.t = "object" THEN Get(fileLike.o, "name")
                   ELSE fileLike.name
       IN  IF ~Falsy(name) THEN name ELSE findName(fileAttachment(fileLike))

\* what DataResolver.resolveFile yields when it succeeds
Resource(attachment) == [t |-> "Resource", of |-> attachment]

\* what resolveFile returns when the resolution succeeds (line 198)
Descriptor(fileLike) ==
  [attachment |-> fileAttachment(fileLike),
   name |-> fileName(fileLike),
   file |-> Resource(fileAttachment(fileLike))]

\* a faulty join: the values in the order in which the promises settled
PromiseAllValuesByCompletion(refs, order) ==
  [k \in 1..Len(order) |-> Descriptor(refs[order[k]])]

\* Promise.all: the values of the promises, by the index of each promise
PromiseAllValues(refs, order) ==
  [i \in 1..Len(refs) |-> Descriptor(refs[i])]

\* a faulty join: a rejected promise is waited for like a pending one
PromiseAllNeverRejects(tasks) == FALSE

\* Promise.all rejects as soon as one of the promises rejects
PromiseAllRejects(tasks) == \E i \in DOMAIN tasks : tasks[i] = "rejected"

\* the promise of Promise.all once the promises are in the states tasks
PromiseAll(prev, refs, tasks, order) ==
  IF prev.state # "pending" THEN prev
  ELSE IF PromiseAllRejects(tasks)
       THEN [state |-> "rejected", value |-> <<>>]
       ELSE IF \A i \in DOMAIN tasks : tasks[i] = "fulfilled"
            THEN [state |-> "fulfilled", value |-> PromiseAllValues(refs, order)]
            ELSE prev

---------------------------------------------------------------------------
(* The values the specifications draw their inputs from *)

E1 == MessageEmbed(1, Undef)
E2 == MessageEmbed(2, Undef)
E3 == MessageEmbed(3, Undef)
A1 == MessageAttachment(1)
A2 == MessageAttachment(2)
Junk == Str(<<"j">>)

WebhookTarget ==
  [kind |-> "Webhook", type |-> "none", name |-> Str(<<"hook">>),
   disableEveryone |-> TRUE]
TextChannelTarget ==
  [kind |-> "TextChannel", type |-> "text", name |-> Str(<<"general">>),
   disableEveryone |-> TRUE]
DMChannelTarget ==
  [kind |-> "DMChannel", type |-> "dm", name |-> Undef, disableEveryone |-> TRUE]
UserTarget ==
  [kind |-> "User", type |-> "none", name |-> Undef, disableEveryone |-> TRUE]

NoArgs == [content |-> Undef, options |-> Undef, extra |-> EmptyObj]
NoPromise == [state |-> "idle", value |-> <<>>]

\* the parts of the state a specification does not use
NormalizeIdle == again = None
CallsIdle ==
  /\ made = None /\ firstMade = None /\ firstData = None /\ calls = 0
PartitionIdle == items = <<>> /\ parts = None
FilesIdle ==
  /\ fileLikes = <<>> /\ task = <<>> /\ completed = <<>> /\ joined = NoPromise

---------------------------------------------------------------------------
(* Normalisation: create, transformOptions of the result, resolveData *)

Additions == SeqsUpTo({E1, E2, E3, A1, Junk}, MaxAdditions)

PlainOptions ==
  { EmptyObj,
    [embed |-> E1],
    [embed |-> Null],
    [embeds |-> Arr(<<E1, E2>>)],
    [embed |-> E1, embeds |-> Arr(<<E2>>)],
    [content |-> Str(<<"b">>)],
    [files |-> Arr(<<A1>>)],
    [tts |-> Bool(TRUE), username |-> Str(<<"u">>)] }

Extras == {EmptyObj, [embeds |-> Arr(<<E3>>)], [content |-> Str(<<"x">>)]}

Contents == {Undef, EmptyStr, Str(<<"a">>)}

CallShapes ==
  \* content plus options
  {[content |-> c, options |-> o, extra |-> x] :
     c \in Contents,
     o \in {Undef, E1, A1} \cup {Obj(q) : q \in PlainOptions}
           \cup {Arr(a) : a \in Additions},
     x \in Extras}
  \cup
  \* options only
  {[content |-> c, options |-> Undef, extra |-> x] :
     c \in {Null, E1, A1} \cup {Obj(q) : q \in PlainOptions}, x \in Extras}
  \cup
  \* an array of embeds and attachments, alone or with an options object
  {[content |-> Arr(a), options |-> o, extra |-> x] :
     a \in Additions,
     o \in {Undef, Null, Obj([embeds |-> Arr(<<E1, E2>>)])},
     x \in Extras}
  \cup
  \* an array as content and an array as options
  {[content |-> Arr(a), options |-> Arr(b), extra |-> x] :
     a \in {<<>>, <<E3>>, <<Junk>>}, b \in Additions, x \in Extras}

Init ==
  /\ args \in CallShapes
  /\ target \in {WebhookTarget, TextChannelTarget}
  /\ options = EmptyObj
  /\ pc = "args"
  /\ data = None
  /\ NormalizeIdle /\ CallsIdle /\ PartitionIdle /\ FilesIdle

Create ==
  /\ pc = "args"
  /\ options' = create(target, args.content, args.options, args.extra)
  /\ pc' = "created"
  /\ UNCHANGED <<args, target, again, data, made, firstMade, firstData, calls,
                 items, parts, fileLikes, task, completed, joined>>

\* the options of the message passed alone into transformOptions
Retransform ==
  /\ pc = "created"
  /\ again = None
  /\ again' = Obj(transformOptions(Obj(options), Undef, EmptyObj, isWebhook(target)))
  /\ UNCHANGED <<args, target, options, pc, data, made, firstMade, firstData,
                 calls, items, parts, fileLikes, task, completed, joined>>

\* a call of makeContent on the message
MakeContent ==
  /\ pc = "created"
  /\ calls < MaxCalls
  /\ made' = makeContent(target, options)
  /\ firstMade' = IF firstMade = None THEN made' ELSE firstMade
  /\ options' = optionsAfterMakeContent(target, options)
  /\ calls' = calls + 1
  /\ UNCHANGED <<args, target, pc, again, data, firstData, items, parts,
                 fileLikes, task, completed, joined>>

\* a call of resolveData on the message, which calls makeContent
ResolveData ==
  /\ pc = "created"
  /\ calls < MaxCalls
  /\ data' = resolveData(target, options)
  /\ firstData' = IF firstData = None THEN data' ELSE firstData
  /\ options' = optionsAfterMakeContent(target, options)
  /\ calls' = calls + 1
  /\ UNCHANGED <<args, target, pc, again, made, firstMade, items, parts,
                 fileLikes, task, completed, joined>>

Next == Create \/ Retransform \/ ResolveData

Spec == Init /\ [][Next]_vars

---------------------------------------------------------------------------
(* Properties of the normalisation *)

IsEmbed(x) == x.t = "MessageEmbed"
IsAttachment(x) == x.t = "MessageAttachment"

\* the value transformOptions takes for options: content, when options is
\* absent and content is an object that is no array
GivenOptions ==
  IF Falsy(args.options) /\ TypeofObject(args.content) /\ args.content.t # "array"
  THEN args.content ELSE args.options

\* the array of embeds and attachments the call passes, <<>> when it passes none
GivenAdditions ==
  IF GivenOptions.t = "array" THEN GivenOptions.items
  ELSE IF args.content.t = "array"
          /\ GivenOptions.t \notin {"MessageEmbed", "MessageAttachment"}
       THEN args.content.items
       ELSE <<>>

\* C1: transformOptions is idempotent: the record it returned, passed alone
\* into transformOptions for the same target kind, comes back with the same
\* fields and the same values.
C1_Idempotent == again # None => again = Obj(options)

Populated(o, k) == k \in DOMAIN o /\ o[k].t \notin {"undefined", "null"}

\* C4 as stated: every record that create produces has exactly one of embed
\* and embeds populated, embeds for a webhook and embed otherwise.
C4_ExactlyOne ==
  pc = "created" =>
    IF isWebhook(target)
    THEN Populated(options, "embeds") /\ ~Populated(options, "embed")
    ELSE Populated(options, "embed") /\ ~Populated(options, "embeds")

\* the call makes transformOptions wrap a MessageEmbed or an array holding an
\* embed or an attachment, and extra sets neither embed nor embeds
WrapsAdditions ==
  /\ \/ GivenOptions.t = "MessageEmbed"
     \/ GivenOptions.t = "array"
     \/ \E i \in 1..Len(GivenAdditions) :
          IsEmbed(GivenAdditions[i]) \/ IsAttachment(GivenAdditions[i])
  /\ DOMAIN args.extra \cap {"embed", "embeds"} = {}

\* C4 (amended): when transformOptions wraps a MessageEmbed or an array of
\* additions and extra sets neither field, the record has exactly one of the
\* fields embed and embeds, never both: embeds, the list of all the embeds
\* given, for a webhook; embed, the first embed given (undefined when none
\* is), otherwise.
C4_WrappedHasOne ==
  (pc = "created" /\ WrapsAdditions) =>
    LET es == IF GivenOptions.t = "MessageEmbed" THEN <<GivenOptions>>
              ELSE SelectSeq(GivenAdditions, IsEmbed)
    IN  IF isWebhook(target)
        THEN /\ "embed" \notin DOMAIN options
             /\ "embeds" \in DOMAIN options
             /\ options["embeds"] = Arr(es)
        ELSE /\ "embeds" \notin DOMAIN options
             /\ "embed" \in DOMAIN options
             /\ options["embed"] = First(es)

C4_Witness ==
  /\ pc = "created"
  /\ WrapsAdditions
  /\ ~isWebhook(target)
  /\ args.options = Arr(<<E1, A1, E2>>)
  /\ options["embed"] = E1

ThreeEmbeds ==
  /\ Len(GivenAdditions) = 3
  /\ \A i \in 1..3 : IsEmbed(GivenAdditions[i])
  /\ DOMAIN args.extra \cap {"embed", "embeds"} = {}

\* C6: for a list of three embeds, normalised and resolved, a webhook target
\* gets the wire list embeds with the three items in input order; any other
\* target gets the first item only, as embed and as the one member of embeds,
\* and no error is raised.
C6_SingleVsList ==
  (data # None /\ ThreeEmbeds) =>
    /\ data.t = "payload"
    /\ IF isWebhook(target)
       THEN data.embeds = Arr([i \in 1..3 |-> apiTransform(GivenAdditions[i])])
       ELSE /\ data.embed = apiTransform(GivenAdditions[1])
            /\ data.embeds = Arr(<<apiTransform(GivenAdditions[1])>>)

C6_Witness ==
  /\ data # None
  /\ ThreeEmbeds
  /\ ~isWebhook(target)
  /\ args.options = Arr(<<E2, E1, E3>>)
  /\ data.embeds = Arr(<<apiTransform(E2)>>)

\* content is an array without embeds and attachments, and options is absent
NothingToPartition ==
  /\ args.content.t = "array"
  /\ Falsy(args.options)
  /\ \A i \in 1..Len(args.content.items) :
       ~IsEmbed(args.content.items[i]) /\ ~IsAttachment(args.content.items[i])

\* C9 as stated: when content is an array that holds no embed and no
\* attachment and options is absent, the record treats content as the empty
\* string (the content made from it is '').
C9_ContentEmpty ==
  (data # None /\ NothingToPartition /\ "content" \notin DOMAIN args.extra) =>
    data.t = "payload" /\ data.content = EmptyStr

\* C9 (amended): in that case transformOptions falls through and the record
\* is { content } merged with extra, content being the array itself; the
\* content made from it is the empty string when the array is empty.
C9_ContentIsArray ==
  (pc = "created" /\ NothingToPartition) =>
    /\ options = Assign([content |-> args.content], args.extra)
    /\ (data # None /\ args.content.items = <<>>
        /\ "content" \notin DOMAIN args.extra)
         => data.content = EmptyStr

C9_Witness ==
  /\ data # None
  /\ NothingToPartition
  /\ args.content = Arr(<<Junk>>)
  /\ args.extra = EmptyObj
  /\ options = [content |-> Arr(<<Junk>>)]
  /\ data.content = Str(<<"j">>)

---------------------------------------------------------------------------
(* partitionMessageAdditions on its own *)

InitPartition ==
  /\ items \in SeqsUpTo({E1, E2, A1, A2, Junk}, MaxItems)
  /\ parts = None
  /\ args = NoArgs
  /\ target = TextChannelTarget
  /\ options = EmptyObj
  /\ pc = "args"
  /\ data = None
  /\ NormalizeIdle /\ CallsIdle /\ FilesIdle

Partition ==
  /\ parts = None
  /\ parts' = LET p == partitionMessageAdditions(items)
              IN  [t |-> "parts", embeds |-> p[1], files |-> p[2]]
  /\ UNCHANGED <<args, target, options, pc, again, data, made, firstMade,
                 firstData, calls, items, fileLikes, task, completed, joined>>

NextPartition == Partition

SpecPartition == InitPartition /\ [][NextPartition]_vars

\* C7: partitionMessageAdditions returns the embeds of the input and the
\* attachments of the input, each in the order of the input; an item that is
\* neither is in neither sequence and raises no error.
C7_Partition ==
  parts # None =>
    /\ parts.t = "parts"
    /\ parts.embeds = SelectSeq(items, IsEmbed)
    /\ parts.files = SelectSeq(items, IsAttachment)
    /\ \A i \in 1..Len(items) :
         (~IsEmbed(items[i]) /\ ~IsAttachment(items[i])) =>
           /\ \A k \in 1..Len(parts.embeds) : parts.embeds[k] # items[i]
           /\ \A k \in 1..Len(parts.files) : parts.files[k] # items[i]

C7_Witness ==
  /\ items = <<E1, A1, E2, Junk, A2>>
  /\ parts # None
  /\ parts.embeds = <<E1, E2>>
  /\ parts.files = <<A1, A2>>

---------------------------------------------------------------------------
(* The nonce *)

NonceChars == {"5", "1", "0", "-", "a"}

NonceValues ==
  {Str(s) : s \in SeqsUpTo(NonceChars, MaxNonceLen)}
  \cup {Num(5), Num(0), Num(0 - 1), Null}

InitNonce ==
  /\ args \in {[content |-> Str(<<"a">>), options |-> Obj(o), extra |-> EmptyObj] :
                 o \in {EmptyObj} \cup {[nonce |-> v] : v \in NonceValues}}
  /\ target \in {WebhookTarget, TextChannelTarget}
  /\ options = EmptyObj
  /\ pc = "args"
  /\ data = None
  /\ NormalizeIdle /\ CallsIdle /\ PartitionIdle /\ FilesIdle

NextNonce == Create \/ ResolveData

SpecNonce == InitNonce /\ [][NextNonce]_vars

\* the number a string of digits denotes
RECURSIVE Decimal(_)
Decimal(ds) ==
  IF ds = <<>> THEN 0
  ELSE 10 * Decimal(SubSeq(ds, 1, Len(ds) - 1)) + DigitVal(ds[Len(ds)])

AllDigits(ds) == ds # <<>> /\ \A i \in 1..Len(ds) : ds[i] \in Digits

\* v denotes an integer: a number, or a string of digits with or without sign
DenotesInteger(v) ==
  \/ v.t = "number"
  \/ v.t = "string" /\ AllDigits(v.s)
  \/ v.t = "string" /\ v.s # <<>> /\ Head(v.s) = "-" /\ AllDigits(Tail(v.s))

Denoted(v) ==
  IF v.t = "number" THEN v.n
  ELSE IF Head(v.s) = "-" THEN 0 - Decimal(Tail(v.s)) ELSE Decimal(v.s)

\* C5: resolveData validates the nonce: a nonce that is set comes out as the
\* non-negative integer it denotes, and resolveData fails with the nonce
\* range error for every nonce that is not a non-negative integer; when the
\* nonce is unset, the nonce of the payload is undefined.
C5_NonceValidated ==
  data # None =>
    LET nonce == Get(options, "nonce")
    IN  IF nonce.t = "undefined"
        THEN data.t = "payload" /\ data.nonce = Undef
        ELSE IF DenotesInteger(nonce) /\ Denoted(nonce) >= 0
             THEN data.t = "payload" /\ data.nonce = Num(Denoted(nonce))
             ELSE data = Throw("MESSAGE_NONCE_TYPE")

---------------------------------------------------------------------------
(* The content formatter: repeated calls of makeContent and resolveData *)

ContentWords == {<<"a">>, <<"NL">>, <<"@", "everyone">>, <<"FENCE">>}

RECURSIVE Flatten(_)
Flatten(ws) == IF ws = <<>> THEN <<>> ELSE Head(ws) \o Flatten(Tail(ws))

ContentStrings == {Flatten(ws) : ws \in SeqsUpTo(ContentWords, MaxContentLen)}

Member == [t |-> "GuildMember", id |-> "42", nickname |-> Str(<<"n">>)]
User == [t |-> "User", id |-> "42"]

SplitChoices ==
  { EmptyObj,
    [split |-> Bool(FALSE)],
    [split |-> Bool(TRUE)],
    [split |-> Obj([maxLength |-> Num(2)])],
    [split |-> Obj([maxLength |-> Num(12), prepend |-> Str(<<"p">>),
                    append |-> Str(<<"q">>)])] }
CodeChoices == {EmptyObj, [code |-> Bool(TRUE)], [code |-> Str(<<"js">>)]}
ReplyChoices == {EmptyObj, [reply |-> Member], [reply |-> User]}
EveryoneChoices == {EmptyObj, [disableEveryone |-> Bool(FALSE)]}

ContentOptions ==
  {s @@ c @@ r @@ e : s \in SplitChoices, c \in CodeChoices,
                      r \in ReplyChoices, e \in EveryoneChoices}

InitContent ==
  /\ args \in {[content |-> c, options |-> Obj(o), extra |-> EmptyObj] :
                 c \in {Undef} \cup {Str(x) : x \in ContentStrings},
                 o \in ContentOptions}
  /\ target \in {TextChannelTarget, DMChannelTarget, UserTarget}
  /\ options = EmptyObj
  /\ pc = "args"
  /\ data = None
  /\ NormalizeIdle /\ CallsIdle /\ PartitionIdle /\ FilesIdle

NextContent == Create \/ MakeContent \/ ResolveData

SpecContent == InitContent /\ [][NextContent]_vars

\* the message replies to somebody and the target takes a mention
HasMention ==
  /\ ~Falsy(Get(options, "reply"))
  /\ target.kind # "User"
  /\ target.type # "dm"

\* the content of the message is not empty
HasContent == Get(options, "content") \notin {Undef, Null, EmptyStr}

\* C8: makeContent and resolveData leave every field of options, the split
\* configuration included, as create built it, and every call returns what
\* the first call returned, also when reply, code and split are all active.
C8_Pure ==
  pc = "created" =>
    /\ options = create(target, args.content, args.options, args.extra)
    /\ made # None => made = firstMade
    /\ data # None => data = firstData
    /\ (made # None /\ data # None /\ data.t = "payload") => data.content = made

C8_Witness ==
  /\ calls = 2
  /\ made # None
  /\ data = None
  /\ HasMention
  /\ isCode(options)
  /\ Get(options, "split").t = "object"
  /\ made.t = "array"
  /\ Len(made.items) > 1

\* C10 as stated: makeContent returns a single string whenever split mode
\* is inactive and a sequence of chunks whenever it is active (a call that
\* throws returns nothing).
C10_StringOrChunks ==
  made # None =>
    IF isSplit(options) THEN made.t \in {"array", "throw"} ELSE made.t = "string"

\* C10 (amended): makeContent returns a sequence of chunks when split mode
\* is active and the content is not empty or a mention is put before it; it
\* returns a single string when split mode is inactive, and also when split
\* mode is active but there is neither content nor mention (the string '').
C10_ChunksUnlessEmpty ==
  (made # None /\ made.t # "throw") =>
    IF isSplit(options) /\ (HasContent \/ HasMention)
    THEN /\ made.t = "array"
         /\ \A i \in 1..Len(made.items) : made.items[i].t = "string"
    ELSE /\ made.t = "string"
         /\ (~HasContent /\ ~HasMention) => made = EmptyStr

C10_Witness ==
  /\ made = EmptyStr
  /\ isSplit(options)
  /\ isCode(options)
  /\ ~HasContent
  /\ ~HasMention
  /\ ~Falsy(Get(options, "reply"))

---------------------------------------------------------------------------
(* The file resolver *)

F1 == Str(<<"dir", "/", "a.png">>)
F2 == Obj([attachment |-> Buffer(2), name |-> Str(<<"n.txt">>)])
Stream == [t |-> "Stream", path |-> Str(<<"tmp", "/", "s.bin">>)]
EF1 == MessageEmbed(1, Arr(<<MessageAttachment(4)>>))
EF2 == MessageEmbed(2, Arr(<<Stream, Obj([attachment |-> Buffer(5)])>>))
EF3 == MessageEmbed(3, Undef)

FileOptions ==
  {f @@ e :
     f \in {EmptyObj} \cup {[files |-> Arr(fs)] : fs \in SeqsUpTo({F1, F2}, MaxRefs)},
     e \in {EmptyObj, [embed |-> Null], [embed |-> EF2]}
           \cup {[embeds |-> Arr(es)] : es \in SeqsUpTo({EF1, EF3}, MaxEmbeds)}}

InitFiles ==
  /\ target \in {WebhookTarget, TextChannelTarget}
  /\ args \in {[content |-> EmptyStr, options |-> Obj(o), extra |-> EmptyObj] :
                 o \in FileOptions}
  /\ Len(discoverFiles(target, create(target, args.content, args.options,
                                      args.extra))) <= MaxRefs
  /\ options = EmptyObj
  /\ pc = "args"
  /\ data = None
  /\ NormalizeIdle /\ CallsIdle /\ PartitionIdle /\ FilesIdle

\* resolveFiles up to its return: every resolveFile runs to its await and
\* Promise.all joins the promises
ResolveFiles ==
  /\ pc = "created"
  /\ joined = NoPromise
  /\ fileLikes' = discoverFiles(target, options)
  /\ task' = [i \in 1..Len(fileLikes') |-> "pending"]
  /\ completed' = <<>>
  /\ joined' = PromiseAll([state |-> "pending", value |-> <<>>], fileLikes',
                          task', completed')
  /\ UNCHANGED <<args, target, options, pc, again, data, made, firstMade,
                 firstData, calls, items, parts>>

\* DataResolver.resolveFile of the i-th reference succeeds
FileResolved(i) ==
  /\ task[i] = "pending"
  /\ task' = [task EXCEPT ![i] = "fulfilled"]
  /\ completed' = Append(completed, i)
  /\ joined' = PromiseAll(joined, fileLikes, task', completed')
  /\ UNCHANGED <<args, target, options, pc, again, data, made, firstMade,
                 firstData, calls, items, parts, fileLikes>>

\* DataResolver.resolveFile of the i-th reference fails
FileFailed(i) ==
  /\ task[i] = "pending"
  /\ task' = [task EXCEPT ![i] = "rejected"]
  /\ completed' = Append(completed, i)
  /\ joined' = PromiseAll(joined, fileLikes, task', completed')
  /\ UNCHANGED <<args, target, options, pc, again, data, made, firstMade,
                 firstData, calls, items, parts, fileLikes>>

NextFiles ==
  \/ Create
  \/ ResolveFiles
  \/ \E i \in DOMAIN task : FileResolved(i)
  \/ \E i \in DOMAIN task : FileFailed(i)

SpecFiles == InitFiles /\ [][NextFiles]_vars

\* the files of the embeds es, in the order of the embeds
RECURSIVE FilesOfEmbeds(_)
FilesOfEmbeds(es) ==
  IF es = <<>> THEN <<>>
  ELSE LET last == es[Len(es)]
       IN  FilesOfEmbeds(SubSeq(es, 1, Len(es) - 1))
           \o (IF last.files.t = "array" THEN last.files.items ELSE <<>>)

\* the references in discovery order: the members of options.files, then the
\* files of each embed that is sent
ExpectedRefs ==
  (IF "files" \in DOMAIN options THEN options["files"].items ELSE <<>>)
  \o FilesOfEmbeds(
       IF isWebhook(target)
       THEN IF "embeds" \in DOMAIN options THEN options["embeds"].items ELSE <<>>
       ELSE IF "embed" \in DOMAIN options /\ IsEmbed(options["embed"])
            THEN <<options["embed"]>> ELSE <<>>)

\* C2: resolveFiles returns its descriptors in discovery order, the i-th
\* descriptor being that of the i-th discovered reference, whatever the order
\* in which the resolutions complete.
C2_DiscoveryOrder ==
  joined.state = "fulfilled" =>
    /\ Len(joined.value) = Len(ExpectedRefs)
    /\ \A i \in 1..Len(ExpectedRefs) :
         /\ joined.value[i].attachment = fileAttachment(ExpectedRefs[i])
         /\ joined.value[i].file = Resource(fileAttachment(ExpectedRefs[i]))
         /\ joined.value[i].name = fileName(ExpectedRefs[i])

C2_Witness ==
  /\ joined.state = "fulfilled"
  /\ completed = <<2, 1, 3>>
  /\ fileLikes = <<F1, Stream, Obj([attachment |-> Buffer(5)])>>
  /\ joined.value[1].name = Str(<<"a.png">>)
  /\ joined.value[2].name = Str(<<"s.bin">>)
  /\ joined.value[3].name = Str(<<"file.jpg">>)

\* C3: file resolution is all or nothing: once a resolution has failed the
\* call has failed and delivers no sequence, whatever else completes; it
\* delivers a sequence only when every resolution succeeded, and then the
\* whole sequence.
C3_AllOrNothing ==
  /\ (\E i \in DOMAIN task : task[i] = "rejected") =>
       joined.state = "rejected" /\ joined.value = <<>>
  /\ joined.state = "fulfilled" =>
       /\ \A i \in DOMAIN task : task[i] = "fulfilled"
       /\ Len(joined.value) = Len(fileLikes)

C3_Witness ==
  /\ Len(completed) = 3
  /\ task[completed[1]] = "fulfilled"
  /\ task[completed[2]] = "rejected"
  /\ task[completed[3]] = "fulfilled"
  /\ joined.state = "rejected"

===========================================================================
